---- MODULE Spec2Model ----
(***************************************************************************)
(* superconf (src/src/lib.rs): lex_str, parse_custom_sep, parse_str and    *)
(* parse_string as a state machine.  A Rust `char` is a one-character      *)
(* string, a `String`/`&str` a sequence of them.  A call runs              *)
(*   start -> Call -> (one loop-body action per token line)* -> done       *)
(* and a finished call may be followed by a further call on the same text. *)
(* The first call is made on every short text through every entry point,   *)
(* and on the line-built documents through parse_custom_sep with the       *)
(* separators ' ' and '>'.                                                 *)
(***************************************************************************)
EXTENDS Integers, Sequences, FiniteSets, TLC

\* ------------------------------------------------------------------------
\* Characters and the input sets
\* ------------------------------------------------------------------------
K    == "k"
V    == "v"
SP   == " "
GT   == ">"
HASH == "#"
BSL  == "\\"
CR   == "\r"
LF   == "\n"

\* bounds of the model
MaxLen   == 3   \* longest text of the exhaustive family
MaxLines == 3   \* most lines of a document of the line-built family
MaxCalls == 2   \* calls made one after the other on the same text

\* characters of the exhaustive family and separators tried
Chars == {K, SP, GT, HASH, BSL, CR, LF}
Seps  == {SP, GT, HASH, BSL}
\* separators the line-built documents are written with
DocSeps == {SP, GT}
Entries == {"parse_custom_sep", "parse_str", "parse_string"}

RECURSIVE SeqsUpTo(_, _)
SeqsUpTo(S, n) ==
    IF n = 0 THEN {<<>>}
    ELSE LET shorter == SeqsUpTo(S, n - 1)
         IN  shorter \cup {Append(t, c) : t \in shorter, c \in S}

\* every text of at most MaxLen characters
Texts == SeqsUpTo(Chars, MaxLen)

\* lines of the line-built family, written with the separator s
DocLines(s) ==
    { <<K, s, V>>,              \* k v      pair  k -> Single(v)
      <<K, s, K>>,              \* k k      pair  k -> Single(k)
      <<V, s, K, s, V>>,        \* v k v    pair  v -> List([k, v])
      <<K>>,                    \* k        bare key
      <<K, s, V, BSL, HASH>>,   \* k v\#    comment directly after a backslash
      <<K, BSL, s, K, s, V>>,   \* k\ k v   escaped separator in the key
      <<K, s, V, CR>>,          \* k v\r    line that ends in \r\n once joined
      <<K, s, V, s>>,           \* k v_     separator after the last field
      <<BSL, K, BSL, s, V, BSL>> } \* \k\ v\  backslashes before a character,
                                \*         before a separator, at the line end

RECURSIVE JoinLines(_)
JoinLines(ls) ==
    IF ls = <<>> THEN <<>> ELSE Head(ls) \o <<LF>> \o JoinLines(Tail(ls))

\* documents of 1..MaxLines lines, every line terminated by \n
Docs(s) == {JoinLines(ls) : ls \in (SeqsUpTo(DocLines(s), MaxLines) \ {<<>>})}

\* ------------------------------------------------------------------------
\* Values (SuperValue, SuperError, Result)
\* ------------------------------------------------------------------------
Single(s) == [tag |-> "Single", val |-> <<s>>]
List(v)   == [tag |-> "List", val |-> v]

ElementExists(element) == [tag |-> "ElementExists", value |-> element]

Ok(map)  == [kind |-> "Ok", map |-> map]
Err(e)   == [kind |-> "Err", error |-> e]
Pending  == [kind |-> "Pending"]

EmptyMap == <<>>

\* ------------------------------------------------------------------------
\* lex_str
\* ------------------------------------------------------------------------
Character(c) == [type |-> "Character", c |-> c]
Seperator    == [type |-> "Seperator"]
Backslash    == [type |-> "Backslash"]
Comment      == [type |-> "Comment"]

\* index of the first \n of s, 0 if there is none
RECURSIVE FirstLF(_, _)
FirstLF(s, i) ==
    IF i > Len(s) THEN 0 ELSE IF s[i] = LF THEN i ELSE FirstLF(s, i + 1)

\* only the final \n is dropped
StripLineEnding_KeepsCR(line) ==
    IF line # <<>> /\ line[Len(line)] = LF
    THEN SubSeq(line, 1, Len(line) - 1)
    ELSE line

\* one line of str::lines: a final \n is dropped, and a \r before it
StripLineEnding(line) ==
    IF line # <<>> /\ line[Len(line)] = LF
    THEN LET l == SubSeq(line, 1, Len(line) - 1)
         IN  IF l # <<>> /\ l[Len(l)] = CR THEN SubSeq(l, 1, Len(l) - 1) ELSE l
    ELSE line

\* str::lines: the pieces of conf that end at each \n, the rest being a
\* last line when it is not empty
RECURSIVE Lines(_)
Lines(conf) ==
    IF conf = <<>> THEN <<>>
    ELSE LET i == FirstLF(conf, 1)
         IN  IF i = 0 THEN <<conf>>
             ELSE <<StripLineEnding(SubSeq(conf, 1, i))>>
                      \o Lines(SubSeq(conf, i + 1, Len(conf)))

\* the space is a separator whatever the seperator argument
got_token_SpaceSplits(line_char, seperator) ==
    IF line_char = seperator \/ line_char = SP THEN Seperator
    ELSE IF line_char = HASH THEN Comment
    ELSE IF line_char = BSL THEN Backslash
    ELSE Character(line_char)

\* the backslash has no token of its own
got_token_BackslashIsCharacter(line_char, seperator) ==
    IF line_char = seperator THEN Seperator
    ELSE IF line_char = HASH THEN Comment
    ELSE Character(line_char)

\* the comment and escape markers are matched before the separator
got_token_MarkersFirst(line_char, seperator) ==
    IF line_char = HASH THEN Comment
    ELSE IF line_char = BSL THEN Backslash
    ELSE IF line_char = seperator THEN Seperator
    ELSE Character(line_char)

got_token(line_char, seperator) ==
    IF line_char = seperator THEN Seperator
    ELSE IF line_char = HASH THEN Comment
    ELSE IF line_char = BSL THEN Backslash
    ELSE Character(line_char)

lex_line(line, seperator) ==
    [i \in 1..Len(line) |-> got_token(line[i], seperator)]

lex_str(conf, seperator) ==
    LET ls == Lines(conf) IN [n \in 1..Len(ls) |-> lex_line(ls[n], seperator)]

\* ------------------------------------------------------------------------
\* parse_custom_sep: the body of `for token in token_line`
\* ------------------------------------------------------------------------
LineStart ==
    [buffer |-> << <<>> >>, ignore_special |-> FALSE, is_comment |-> FALSE]

\* buffer.last_mut().unwrap().push(c)
PushLast(buffer, c) ==
    [buffer EXCEPT ![Len(buffer)] = Append(@, c)]

\* every unescaped separator opens a field
TokenStep_NoCollapse(st, token) ==
    CASE token.type = "Comment" ->
            [st EXCEPT !.is_comment = TRUE]
      [] token.type = "Backslash" ->
            [st EXCEPT !.ignore_special = ~st.ignore_special]
      [] token.type = "Seperator" ->
            IF st.ignore_special
            THEN [st EXCEPT !.buffer = PushLast(st.buffer, SP),
                            !.ignore_special = FALSE]
            ELSE [st EXCEPT !.buffer = Append(st.buffer, <<>>)]
      [] token.type = "Character" ->
            [st EXCEPT !.buffer = PushLast(st.buffer, token.c)]

\* the emptiness test looks at the first field, not the last
TokenStep_ChecksFirstField(st, token) ==
    CASE token.type = "Comment" ->
            [st EXCEPT !.is_comment = TRUE]
      [] token.type = "Backslash" ->
            [st EXCEPT !.ignore_special = ~st.ignore_special]
      [] token.type = "Seperator" ->
            IF st.ignore_special
            THEN [st EXCEPT !.buffer = PushLast(st.buffer, SP),
                            !.ignore_special = FALSE]
            ELSE IF st.buffer[1] # <<>>
            THEN [st EXCEPT !.buffer = Append(st.buffer, <<>>)]
            ELSE st
      [] token.type = "Character" ->
            [st EXCEPT !.buffer = PushLast(st.buffer, token.c)]

TokenStep(st, token) ==
    CASE token.type = "Comment" ->
            [st EXCEPT !.is_comment = TRUE]
      [] token.type = "Backslash" ->
            [st EXCEPT !.ignore_special = ~st.ignore_special]
      [] token.type = "Seperator" ->
            IF st.ignore_special
            THEN [st EXCEPT !.buffer = PushLast(st.buffer, SP),
                            !.ignore_special = FALSE]
            ELSE IF st.buffer[Len(st.buffer)] # <<>>
            THEN [st EXCEPT !.buffer = Append(st.buffer, <<>>)]
            ELSE st
      [] token.type = "Character" ->
            [st EXCEPT !.buffer = PushLast(st.buffer, token.c)]

\* the token loop from the state st, left at the first Comment
RECURSIVE ParseTokens(_, _)
ParseTokens(st, token_line) ==
    IF token_line = <<>> \/ st.is_comment THEN st
    ELSE ParseTokens(TokenStep(st, Head(token_line)), Tail(token_line))

\* the loop is left at a Comment without is_comment being set
ParseLine_KeepTruncated(token_line) ==
    [ParseTokens(LineStart, token_line) EXCEPT !.is_comment = FALSE]

\* an empty field left open at the end of the line is dropped
ParseLine_DropsEmptyLast(token_line) ==
    LET st == ParseTokens(LineStart, token_line)
        n  == Len(st.buffer)
    IN  IF n > 1 /\ st.buffer[n] = <<>>
        THEN [st EXCEPT !.buffer = SubSeq(st.buffer, 1, n - 1)]
        ELSE st

ParseLine(token_line) == ParseTokens(LineStart, token_line)

\* the arm for one field is missing
FinalValue_AlwaysList(buffer) == List(buffer)

\* match buffer.len() { 1 => Single(buffer[0]), _ => List(buffer) }, for the
\* buffer left by buffer.remove(0)
FinalValue(buffer) ==
    IF Len(buffer) = 1 THEN Single(buffer[1]) ELSE List(buffer)

\* the map holds the newest entry only
Insert_ForgetsOthers(map, key, value) ==
    [k \in {key} |-> value]

\* HashMap::insert
Insert(map, key, value) ==
    [k \in DOMAIN map \cup {key} |-> IF k = key THEN value ELSE map[k]]

\* ------------------------------------------------------------------------
\* State
\* ------------------------------------------------------------------------
VARIABLES
    entry,             \* the entry point called
    conf,              \* its text argument
    seperator,         \* parse_custom_sep's seperator
    pc,                \* "start", "loop" or "done"
    tokens,            \* lex_str's output
    li,                \* index of the token line the for loop is at
    output,            \* the HashMap being built
    expect_new_level,  \* the _expect_new_level flag
    result,            \* what the call returned
    calls,             \* number of calls started
    history            \* entry and result of the previous call

vars == <<entry, conf, seperator, pc, tokens, li, output, expect_new_level,
          result, calls, history>>

NoSep == ""

Init ==
    /\ \/ /\ entry = "parse_custom_sep"
          /\ seperator \in Seps
          /\ conf \in Texts \cup (IF seperator \in DocSeps
                                   THEN Docs(seperator) ELSE {})
       \/ /\ entry \in {"parse_str", "parse_string"}
          /\ seperator = NoSep
          /\ conf \in Texts
    /\ pc = "start"
    /\ tokens = <<>>
    /\ li = 1
    /\ output = EmptyMap
    /\ expect_new_level = FALSE
    /\ result = Pending
    /\ calls = 1
    /\ history = Pending

\* parse_str, parse_string: parse_custom_sep(conf, ' ')
EntrySeperator(e, sep) ==
    IF e = "parse_custom_sep" THEN sep ELSE SP

\* the map of the call before is still there
Call_KeepsOutput ==
    /\ pc = "start"
    /\ seperator' = EntrySeperator(entry, seperator)
    /\ tokens' = lex_str(conf, seperator')
    /\ expect_new_level' = FALSE
    /\ li' = 1
    /\ pc' = "loop"
    /\ UNCHANGED <<entry, conf, output, result, calls, history>>

\* lines 157-160: the locals of a call
Call ==
    /\ pc = "start"
    /\ seperator' = EntrySeperator(entry, seperator)
    /\ output' = EmptyMap
    /\ tokens' = lex_str(conf, seperator')
    /\ expect_new_level' = FALSE
    /\ li' = 1
    /\ pc' = "loop"
    /\ UNCHANGED <<entry, conf, result, calls, history>>

InLoop == pc = "loop" /\ li <= Len(tokens)

\* ignore_special lives outside the line loop: an escape left pending by
\* the line before is still pending
LineEnd_CarriesEscape(n) ==
    ParseTokens([LineStart EXCEPT !.ignore_special =
                     (n > 1 /\ ParseLine(tokens[n - 1]).ignore_special)],
                tokens[n])

\* the line state at the end of the token loop of line n
LineEnd(n) == ParseLine(tokens[n])

\* lines 194-196: if is_comment { continue }
SkipComment ==
    /\ InLoop
    /\ LineEnd(li).is_comment
    /\ li' = li + 1
    /\ UNCHANGED <<entry, conf, seperator, pc, tokens, output,
                   expect_new_level, result, calls, history>>

\* a line with a key and no value is refused
NewLevel_NoKey ==
    /\ InLoop
    /\ ~LineEnd(li).is_comment
    /\ Len(Tail(LineEnd(li).buffer)) = 0
    /\ result' = Err([tag |-> "NoKey"])
    /\ pc' = "done"
    /\ UNCHANGED <<entry, conf, seperator, tokens, li, output,
                   expect_new_level, calls, history>>

\* lines 198-204: buffer.len() is 0 once the key is removed
NewLevel ==
    /\ InLoop
    /\ ~LineEnd(li).is_comment
    /\ Len(Tail(LineEnd(li).buffer)) = 0
    /\ expect_new_level' = TRUE
    /\ li' = li + 1
    /\ UNCHANGED <<entry, conf, seperator, pc, tokens, output, result,
                   calls, history>>

\* lines 198-212, output.insert gives None
InsertNew ==
    /\ InLoop
    /\ ~LineEnd(li).is_comment
    /\ LET key    == Head(LineEnd(li).buffer)
           buffer == Tail(LineEnd(li).buffer)
       IN  /\ Len(buffer) > 0
           /\ key \notin DOMAIN output
           /\ output' = Insert(output, key, FinalValue(buffer))
    /\ li' = li + 1
    /\ UNCHANGED <<entry, conf, seperator, pc, tokens, expect_new_level,
                   result, calls, history>>

\* a duplicate key overwrites the stored value and the loop goes on
InsertExisting_Overwrites ==
    /\ InLoop
    /\ ~LineEnd(li).is_comment
    /\ LET key    == Head(LineEnd(li).buffer)
           buffer == Tail(LineEnd(li).buffer)
       IN  /\ Len(buffer) > 0
           /\ key \in DOMAIN output
           /\ output' = Insert(output, key, FinalValue(buffer))
    /\ li' = li + 1
    /\ UNCHANGED <<entry, conf, seperator, pc, tokens, expect_new_level,
                   result, calls, history>>

\* the error carries the value of the offending line
InsertExisting_ReturnsNew ==
    /\ InLoop
    /\ ~LineEnd(li).is_comment
    /\ LET key    == Head(LineEnd(li).buffer)
           buffer == Tail(LineEnd(li).buffer)
       IN  /\ Len(buffer) > 0
           /\ key \in DOMAIN output
           /\ output' = Insert(output, key, FinalValue(buffer))
           /\ result' = Err(ElementExists(FinalValue(buffer)))
    /\ pc' = "done"
    /\ UNCHANGED <<entry, conf, seperator, tokens, li, expect_new_level,
                   calls, history>>

\* lines 198-212, output.insert gives Some(element)
InsertExisting ==
    /\ InLoop
    /\ ~LineEnd(li).is_comment
    /\ LET key    == Head(LineEnd(li).buffer)
           buffer == Tail(LineEnd(li).buffer)
       IN  /\ Len(buffer) > 0
           /\ key \in DOMAIN output
           /\ output' = Insert(output, key, FinalValue(buffer))
           /\ result' = Err(ElementExists(output[key]))
    /\ pc' = "done"
    /\ UNCHANGED <<entry, conf, seperator, tokens, li, expect_new_level,
                   calls, history>>

\* line 215: Ok(output)
Return ==
    /\ pc = "loop"
    /\ li > Len(tokens)
    /\ result' = Ok(output)
    /\ pc' = "done"
    /\ UNCHANGED <<entry, conf, seperator, tokens, li, output,
                   expect_new_level, calls, history>>

\* the caller parses the same text again, through any entry point that
\* stands for the same separator
CallAgain ==
    /\ pc = "done"
    /\ calls < MaxCalls
    /\ history' = [entry |-> entry, result |-> result]
    /\ entry' \in IF seperator = SP THEN Entries ELSE {"parse_custom_sep"}
    /\ result' = Pending
    /\ calls' = calls + 1
    /\ pc' = "start"
    /\ UNCHANGED <<conf, seperator, tokens, li, output, expect_new_level>>

Next ==
    \/ Call
    \/ SkipComment
    \/ NewLevel
    \/ InsertNew
    \/ InsertExisting
    \/ Return
    \/ CallAgain

Spec == Init /\ [][Next]_vars

\* ------------------------------------------------------------------------
\* Properties
\* ------------------------------------------------------------------------
Range(f) == {f[x] : x \in DOMAIN f}

\* the text of line n of conf
LineText(n) == Lines(conf)[n]

\* the line state after the first i tokens of line n
PrefixState(n, i) == ParseTokens(LineStart, SubSeq(tokens[n], 1, i))

\* line n yields a key/value pair
PairLine(n) == ~LineEnd(n).is_comment /\ Len(LineEnd(n).buffer) >= 2

\* the first field of line n
KeyOf(n) == Head(LineEnd(n).buffer)

DuplicateAt(j) ==
    /\ PairLine(j)
    /\ \E i \in 1..(j - 1) : PairLine(i) /\ KeyOf(i) = KeyOf(j)

\* C2: the call fails exactly when two lines that each yield a pair yield
\* the same key; a line that yields no pair (comment, bare key) changes
\* neither the map nor the outcome, and a failure carries no mapping.
C2_ErrorIffDuplicatePair ==
    /\ [](pc = "done" =>
            /\ result.kind \in {"Ok", "Err"}
            /\ (result.kind = "Err") <=> (\E j \in 1..Len(tokens) : DuplicateAt(j))
            /\ result.kind = "Err" => DOMAIN result = {"kind", "error"})
    /\ [][(InLoop /\ ~PairLine(li))
            => output' = output /\ result' = result /\ pc' = "loop"]_vars

\* a key was stored, repeated on a line without a pair (no error there),
\* then repeated on a pair line, where the call failed
C2_Witness ==
    /\ pc = "done"
    /\ result.kind = "Err"
    /\ li = 3
    /\ PairLine(1)
    /\ ~PairLine(2)
    /\ KeyOf(2) = KeyOf(1)
    /\ KeyOf(3) = KeyOf(1)

\* the value of pair line n
LineValue(n) ==
    LET fields == Tail(LineEnd(n).buffer)
    IN  IF Len(fields) = 1
        THEN [tag |-> "Single", val |-> <<fields[1]>>]
        ELSE [tag |-> "List", val |-> fields]

\* the first line, in line order, that repeats the key of an earlier pair
FirstDuplicate ==
    CHOOSE j \in 1..Len(tokens) :
        DuplicateAt(j) /\ \A m \in 1..(j - 1) : ~DuplicateAt(m)

\* the pair line before j with j's key
EarlierLine(j) ==
    CHOOSE i \in 1..(j - 1) : PairLine(i) /\ KeyOf(i) = KeyOf(j)

\* C3: a failed call returns ElementExists(v), v the value stored by the
\* earlier line with the key, for the first duplicate in line order; the
\* loop stops at that line.
C3_ErrorCarriesEarlierValue ==
    (pc = "done" /\ result.kind = "Err") =>
        /\ result.error = [tag |-> "ElementExists",
                           value |-> LineValue(EarlierLine(FirstDuplicate))]
        /\ li = FirstDuplicate

\* the call failed at a line whose own value differs from the one
\* reported, and a later line repeats a key as well
C3_Witness ==
    /\ pc = "done"
    /\ result.kind = "Err"
    /\ LineValue(li) # result.error.value
    /\ \E m \in (li + 1)..Len(tokens) :
          DuplicateAt(m) /\ LineValue(m) # LineValue(li)

\* the pieces of line between the occurrences of s, left to right
RECURSIVE Pieces(_, _, _)
Pieces(line, s, piece) ==
    IF line = <<>> THEN <<piece>>
    ELSE IF Head(line) = s THEN <<piece>> \o Pieces(Tail(line), s, <<>>)
    ELSE Pieces(Tail(line), s, Append(piece, Head(line)))

\* a line of fields of ordinary characters with one s between neighbours
PlainLine(line, s) ==
    /\ line # <<>>
    /\ \A i \in 1..Len(line) : line[i] = s \/ line[i] \notin {HASH, BSL}
    /\ \A i \in 1..Len(Pieces(line, s, <<>>)) : Pieces(line, s, <<>>)[i] # <<>>

\* C4: on a line that is no comment the first field is the key; no further
\* field stores nothing, one further field f stores Single(f), two or more
\* store the List of them in their order on the line.
C4_KeyAndValueShape ==
    /\ [](InLoop /\ PlainLine(LineText(li), seperator)
             => /\ ~LineEnd(li).is_comment
                /\ LineEnd(li).buffer = Pieces(LineText(li), seperator, <<>>))
    /\ [][(InLoop /\ ~LineEnd(li).is_comment) =>
            LET fields == LineEnd(li).buffer
                key    == fields[1]
                n      == Len(fields) - 1
            IN  /\ n = 0 => output' = output /\ pc' = "loop"
                /\ n = 1 => /\ key \in DOMAIN output'
                            /\ output'[key] =
                                 [tag |-> "Single", val |-> <<fields[2]>>]
                /\ n >= 2 => /\ key \in DOMAIN output'
                             /\ output'[key] =
                                  [tag |-> "List",
                                   val |-> [i \in 1..n |-> fields[i + 1]]]
                /\ \A k \in DOMAIN output' \ {key} :
                      k \in DOMAIN output /\ output'[k] = output[k]]_vars

\* a line of three plain fields stored a List of two different fields
C4_Witness ==
    /\ pc = "loop"
    /\ li = 2
    /\ PlainLine(LineText(1), seperator)
    /\ Len(LineEnd(1).buffer) = 3
    /\ LineEnd(1).buffer[2] # LineEnd(1).buffer[3]
    /\ output[KeyOf(1)] =
          [tag |-> "List", val |-> <<LineEnd(1).buffer[2], LineEnd(1).buffer[3]>>]

\* C5: a separator token directly after the line's only backslash so far
\* appends the separator character itself to the current field and opens no
\* new field.
C5_EscapedSeparatorIsLiteral ==
    InLoop =>
        \A i \in 2..Len(tokens[li]) :
            ( /\ tokens[li][i] = Seperator
              /\ tokens[li][i - 1] = Backslash
              /\ \A j \in 1..(i - 2) :
                    tokens[li][j] \notin {Backslash, Comment} )
            => PrefixState(li, i).buffer
                 = PushLast(PrefixState(li, i - 1).buffer, seperator)

\* s, '#' and the backslash do not occur in str
Ordinary(str, s) == \A i \in 1..Len(str) : str[i] \notin {s, HASH, BSL}

\* C6: only the active separator splits fields.  A one-line text k s v, with
\* k and v not empty and free of s, '#' and backslash, gives {k: Single(v)},
\* whatever other characters k and v hold; a text without the active
\* separator gives the empty mapping; parse_str and parse_string give what
\* parse_custom_sep gives for ' '.
C6_OnlySeparatorSplits ==
    /\ pc # "start" /\ entry # "parse_custom_sep" => seperator = SP
    /\ pc = "done" =>
          /\ \A i \in 2..(Len(conf) - 1) :
                ( /\ conf[i] = seperator
                  /\ LF \notin Range(conf)
                  /\ Ordinary(SubSeq(conf, 1, i - 1), seperator)
                  /\ Ordinary(SubSeq(conf, i + 1, Len(conf)), seperator) )
                => result =
                     [kind |-> "Ok",
                      map  |-> (SubSeq(conf, 1, i - 1) :>
                                  [tag |-> "Single",
                                   val |-> <<SubSeq(conf, i + 1, Len(conf))>>])]
          /\ seperator \notin Range(conf)
                => result = [kind |-> "Ok", map |-> EmptyMap]
          /\ calls > 1 /\ entry # history.entry => result = history.result

\* with a separator other than the space, a space was kept as the key and
\* as the value
C6_Witness ==
    /\ pc = "done"
    /\ seperator # SP
    /\ conf = <<SP, seperator, SP>>
    /\ result = [kind |-> "Ok",
                 map  |-> (<<SP>> :> [tag |-> "Single", val |-> <<<<SP>>>>])]

\* line is blank, holds separators only, or is a bare key of ordinary
\* characters
ValuelessLine(line, s) ==
    \/ \A i \in 1..Len(line) : line[i] = s
    \/ Ordinary(line, s)

ResultStrings ==
    IF result.kind = "Ok"
    THEN DOMAIN result.map
           \cup UNION {Range(result.map[k].val) : k \in DOMAIN result.map}
    ELSE Range(result.error.value.val)

\* C8: no key and no value string of a returned mapping or of an
\* ElementExists error holds a backslash.
C8_NoBackslashInResult ==
    pc = "done" => \A str \in ResultStrings : BSL \notin Range(str)

\* a text with a backslash gave a mapping with an entry
C8_Witness ==
    /\ pc = "done"
    /\ BSL \in Range(conf)
    /\ seperator # BSL
    /\ result.kind = "Ok"
    /\ \E k \in DOMAIN result.map : result.map[k].val # << <<>> >>

\* number of \n among the first p characters of conf
RECURSIVE LFsBefore(_)
LFsBefore(p) ==
    IF p = 0 THEN 0 ELSE LFsBefore(p - 1) + (IF conf[p] = LF THEN 1 ELSE 0)

\* position of the last \n before position p of conf, 0 if there is none
RECURSIVE LastLFBefore(_)
LastLFBefore(p) ==
    IF p <= 1 THEN 0
    ELSE IF conf[p - 1] = LF THEN p - 1 ELSE LastLFBefore(p - 1)

\* line and column of position p of conf when records end at \n only
LineOfPos(p) == LFsBefore(p - 1) + 1
ColOfPos(p)  == p - LastLFBefore(p)

RemoveAt(seq, i) == SubSeq(seq, 1, i - 1) \o SubSeq(seq, i + 1, Len(seq))

\* two line states give the same outcome: both a comment, or the same fields
SameOutcome(a, b) ==
    /\ a.is_comment = b.is_comment
    /\ ~a.is_comment => a.buffer = b.buffer

\* C11: a backslash directly before a Character token only gets consumed:
\* the line without that backslash gives the same key and fields.
C11_BackslashBeforeCharacterIsNoOp ==
    InLoop =>
        \A i \in 1..(Len(tokens[li]) - 1) :
            (tokens[li][i] = Backslash /\ tokens[li][i + 1].type = "Character")
            => SameOutcome(ParseLine(RemoveAt(tokens[li], i)), LineEnd(li))

\* number of consecutive Backslash tokens of line n that end at position i
RECURSIVE RunLen(_, _)
RunLen(n, i) ==
    IF i >= 1 /\ tokens[n][i] = Backslash THEN 1 + RunLen(n, i - 1) ELSE 0

\* token i of line n was added to the current field as a character
EscapedAt(n, i) ==
    LET before == PrefixState(n, i - 1).buffer
        after  == PrefixState(n, i).buffer
    IN  /\ Len(after) = Len(before)
        /\ Len(after[Len(after)]) = Len(before[Len(before)]) + 1

\* C12: a separator is escaped exactly when the run of backslashes directly
\* before it has odd length; a separator with no backslash before it (run
\* of length 0), also one that follows an escaped separator, is a delimiter.
C12_OddRunEscapes ==
    InLoop =>
        \A i \in 1..Len(tokens[li]) :
            (tokens[li][i] = Seperator /\ ~PrefixState(li, i - 1).is_comment)
            => (EscapedAt(li, i) <=> RunLen(li, i - 1) % 2 = 1)

\* seq with x put in after its i-th element (in front for i = 0)
InsertAt(seq, i, x) ==
    SubSeq(seq, 1, i) \o <<x>> \o SubSeq(seq, i + 1, Len(seq))

\* token i of line n is a separator read with no escape pending
UnescapedAt(n, i) ==
    /\ tokens[n][i] = Seperator
    /\ ~PrefixState(n, i - 1).is_comment
    /\ ~PrefixState(n, i - 1).ignore_special

\* C13: one more separator directly after an unescaped separator, or at the
\* very start of the line, changes neither the key nor the fields of the
\* line, and no field between two fields is empty.
C13_SeparatorsCollapse ==
    InLoop =>
        /\ \A i \in 0..Len(tokens[li]) :
              (i = 0 \/ UnescapedAt(li, i))
              => SameOutcome(ParseLine(InsertAt(tokens[li], i, Seperator)),
                             LineEnd(li))
        /\ ~LineEnd(li).is_comment
              => \A j \in 2..(Len(LineEnd(li).buffer) - 1) :
                    LineEnd(li).buffer[j] # <<>>

\* a line with two unescaped separators in a row stored its pair
C13_Witness ==
    /\ pc = "loop"
    /\ li = 2
    /\ \E i \in 1..(Len(tokens[1]) - 1) :
          UnescapedAt(1, i) /\ UnescapedAt(1, i + 1)
    /\ PairLine(1)
    /\ KeyOf(1) \in DOMAIN output

\* C14: the separator is matched first.  With separator '#' there is no
\* Comment token and no line is a comment; with separator backslash there
\* is no Backslash token and no escape is ever pending.  Every line has one
\* token per character, in order: Seperator for the separator, else Comment
\* for '#', else Backslash for the backslash, else the Character itself.
C14_SeparatorHasPriority ==
    pc # "start" =>
        LET ls == Lines(conf)
        IN  /\ Len(tokens) = Len(ls)
            /\ \A n \in 1..Len(tokens) :
                  LET line == ls[n]
                      tks  == tokens[n]
                  IN  /\ Len(tks) = Len(line)
                      /\ \A i \in 1..Len(tks) :
                            /\ (tks[i].type = "Seperator")
                                  <=> (line[i] = seperator)
                            /\ (tks[i].type = "Comment")
                                  <=> (line[i] = HASH /\ seperator # HASH)
                            /\ (tks[i].type = "Backslash")
                                  <=> (line[i] = BSL /\ seperator # BSL)
                            /\ (tks[i].type = "Character")
                                  <=> (line[i] \notin {seperator, HASH, BSL})
                            /\ tks[i].type = "Character" => tks[i].c = line[i]
                      /\ seperator = HASH => ~LineEnd(n).is_comment
                      /\ seperator = BSL =>
                            \A i \in 0..Len(tks) :
                                ~PrefixState(n, i).ignore_special

\* with separator '#' the text k#k gave {k: Single(k)}
C14_Witness ==
    /\ pc = "done"
    /\ seperator = HASH
    /\ conf = <<K, HASH, K>>
    /\ result = [kind |-> "Ok",
                 map  |-> (<<K>> :> [tag |-> "Single", val |-> <<<<K>>>>])]

\* line n of conf lexed and parsed on its own, from a fresh line state
AloneEnd(n) == ParseLine(lex_line(LineText(n), seperator))

C16_OnlyLastFieldMayBeEmpty ==
    /\ \A k \in DOMAIN output :
          /\ k # <<>>
          /\ \A j \in 1..(Len(output[k].val) - 1) : output[k].val[j] # <<>>
    /\ (pc = "done" /\ result.kind = "Ok") =>
          \A k \in DOMAIN result.map :
              /\ k # <<>>
              /\ \A j \in 1..(Len(result.map[k].val) - 1) :
                    result.map[k].val[j] # <<>>

\* a text that starts and ends with the separator gave an entry whose
\* only field is empty
C16_Witness ==
    /\ pc = "done"
    /\ result.kind = "Ok"
    /\ Len(conf) = 3
    /\ conf[1] = seperator
    /\ conf[3] = seperator
    /\ \E k \in DOMAIN result.map : result.map[k].val = << <<>> >>

\* C17: a one-line text of plain fields followed by one more separator
\* gives an empty last field: the key alone gives Single(""), the key and
\* further fields give the List of those fields and "".
C17_TrailingSeparatorOpensField ==
    (pc = "done" /\ Len(tokens) = 1 /\ LineText(1) # <<>>) =>
        LET t     == LineText(1)
            front == SubSeq(t, 1, Len(t) - 1)
            p     == Pieces(front, seperator, <<>>)
        IN  (t[Len(t)] = seperator /\ PlainLine(front, seperator))
            => result =
                 [kind |-> "Ok",
                  map  |-> (p[1] :>
                             IF Len(p) = 1
                             THEN [tag |-> "Single", val |-> << <<>> >>]
                             ELSE [tag |-> "List",
                                   val |-> Append(Tail(p), <<>>)])]

\* the line "k v " gave {k: List([v, ""])}
C17_Witness ==
    /\ pc = "done"
    /\ Len(tokens) = 1
    /\ LineText(1) = <<K, seperator, V, seperator>>
    /\ result = [kind |-> "Ok",
                 map  |-> (<<K>> :> [tag |-> "List", val |-> <<<<V>>, <<>>>>])]

\* the lines that yield a pair
PairLines == {n \in 1..Len(tokens) : PairLine(n)}

\* C18: with the lines taken as str::lines yields them, the outcome is fixed
\* by which pairs the lines yield, not by the order they come in: the call
\* succeeds exactly when no two pair lines have the same key, and then
\* returns the map that holds the pair of every pair line and nothing else.
C18_OrderOfLinesIrrelevant ==
    pc = "done" =>
        /\ (result.kind = "Ok") <=>
              (\A i \in PairLines : \A j \in PairLines :
                    KeyOf(i) = KeyOf(j) => i = j)
        /\ result.kind = "Ok" =>
              /\ DOMAIN result.map = {KeyOf(n) : n \in PairLines}
              /\ \A n \in PairLines : result.map[KeyOf(n)] = LineValue(n)

\* three lines, the pairs of the first and the last around a line without
\* a pair, were returned as two entries
C18_Witness ==
    /\ pc = "done"
    /\ calls = 1
    /\ result.kind = "Ok"
    /\ Len(tokens) = 3
    /\ PairLines = {1, 3}
    /\ LineValue(1) # LineValue(3)
    /\ DOMAIN result.map = {KeyOf(1), KeyOf(3)}
    /\ Cardinality(DOMAIN result.map) = 2

====
